---- MODULE Spec2Model ----
(***************************************************************************)
(* A model of the amazon-sagemaker-mlops-workshop notebooks:               *)
(*   - module 02 (src/unnamed/part_000): the notebook that saves the raw   *)
(*     arrays, fits a StandardScaler, scales and routes the files, trains, *)
(*     saves and scores a model, all inside the notebook kernel;           *)
(*   - preprocessing.py (written by labs 03 and 04 with %%writefile);      *)
(*   - batch-score.py (written by labs 03 and 04);                         *)
(*   - the lab 03 notebook run cell by cell;                               *)
(*   - the lab 04 TF2Workflow pipeline definition and its execution.       *)
(* Feature values are exact integers; a scaled value is kept as the exact  *)
(* pair (numerator, squared denominator), so that "zero mean" and "unit    *)
(* variance" are exact statements (the code works in floating point).      *)
(***************************************************************************)
EXTENDS Integers, Sequences, FiniteSets, TLC

VARIABLES
    prog,         \* which program runs: "module02" or "preprocessing.py"
    cwd,          \* os.getcwd() of the notebook kernel (a string, as characters)
    ds,           \* what boston_housing.load_data() returns
    run,          \* how many times the program has been started
    pc,           \* the cell (or statement) about to run
    status,       \* "running", "done" or "failed" (an uncaught exception)
    fs,           \* the files: location -> array, or NoFile
    env,          \* the kernel's variables x_train, y_train, x_test, y_test
    scaler,       \* the StandardScaler object: Unfitted or its statistics
    input_files,  \* the entries of glob's list the loop has not visited yet
    raw,          \* loop variable raw
    transformed,  \* loop variable transformed
    model,        \* the keras model object of the kernel
    error,        \* the exception that ended the run, "" when none
    fitLog,       \* history: the arrays scaler.fit was called with, this run
    transformLog, \* history: (file, scaler used, result) of each scaler.transform
    written,      \* history: the locations written during this run
    readLog,      \* history: (stage, location, written this run?) per np.load
    \* lab 04: the TF2Workflow pipeline
    p_pc,         \* the statement of the lab 04 notebook about to run
    p_status,     \* "running", "done" or "failed" (the notebook run)
    upserted,     \* the pipeline definition is registered with the service
    execution,    \* "none", "Executing", "Succeeded" or "Failed"
    parameters,   \* the parameter values of the execution
    stepStatus,   \* per step: "NotStarted", "Executing", "Succeeded", "Failed"
    startedAfter, \* history: per started step, the steps that had succeeded
    jobs,         \* per started step, the job the service created for it
    \* batch-score.py
    s_pc,         \* the statement of batch-score.py about to run
    s_status,     \* "running", "done" or "failed"
    s_run,        \* how many times batch-score.py has been started
    scores,       \* the variable scores
    report,       \* the content of score-report.txt, or NoFile
    reportLog,    \* history: the scores each run wrote to its report
    \* lab 03
    n_pc,         \* the cell of the lab 03 notebook about to run
    n_status,     \* "running", "done" or "failed"
    n_run,        \* how many times the notebook has been run
    execution_role,   \* the variable execution_role
    tuning_predictor, \* the variable tuning_predictor: the endpoint it names
    endpoints,    \* the endpoints that exist in the account
    raised,       \* history: the (cell, exception) pairs raised during this run
    n_x_test,     \* the variable x_test of the lab 03 kernel
    n_jobs,       \* the jobs the notebook has submitted to SageMaker in this run
    handed        \* history: the feature arrays given to a model, and by what

dataVars == <<prog, cwd, ds, run, pc, status, fs, env, scaler, input_files,
              raw, transformed, model, error, fitLog, transformLog, written, readLog>>

pipeVars == <<p_pc, p_status, upserted, execution, parameters, stepStatus,
             startedAfter, jobs>>

scoreVars == <<s_pc, s_status, s_run, scores, report, reportLog>>
labVars == <<n_pc, n_status, n_run, execution_role, tuning_predictor,
             endpoints, raised, n_x_test, n_jobs, handed>>

vars == <<dataVars, pipeVars, scoreVars, labVars>>

-----------------------------------------------------------------------------
(* Bounds of the model *)

\* rows of the raw training feature matrix (404 in the data set)
MaxRows == 2
\* rows of the raw test feature matrix (102 in the data set)
MaxTestRows == 1
\* how often the notebook is run top to bottom in one working directory
MaxRuns == 2
\* the largest ProcessingInstanceCount an execution is started with
MaxInstanceCount == 2
\* the largest value model.evaluate returns
MaxScore == 2

\* the largest value of a raw feature
MaxVal == 1

\* the feature columns: one of the thirteen, since StandardScaler computes
\* every column's statistics from that column alone
Columns == {"CRIM"}
\* the values a raw feature takes
FeatureValues == 0..MaxVal

NoFile == [kind |-> "nofile"]
Unbound == [kind |-> "unbound"]
Unfitted == [kind |-> "unfitted"]

-----------------------------------------------------------------------------
(* Strings whose content the code inspects are sequences of characters *)

Contains(s, sub) ==
    \E i \in 0..(Len(s) - Len(sub)) : SubSeq(s, i + 1, i + Len(sub)) = sub

Str_y_ == <<"y", "_">>
Str_train == <<"t", "r", "a", "i", "n">>
Str_npy == <<".", "n", "p", "y">>

FileNames == {"x_train.npy", "y_train.npy", "x_test.npy", "y_test.npy"}

NameChars(f) ==
    CASE f = "x_train.npy" -> <<"x", "_">> \o Str_train \o Str_npy
      [] f = "y_train.npy" -> <<"y", "_">> \o Str_train \o Str_npy
      [] f = "x_test.npy"  -> <<"x", "_", "t", "e", "s", "t">> \o Str_npy
      [] f = "y_test.npy"  -> <<"y", "_", "t", "e", "s", "t">> \o Str_npy

\* working directories the notebook may be opened in
WorkDirs ==
    { <<"/", "w", "s">>,
      <<"/">> \o Str_train,
      <<"/", "m", "y", "_", "w", "s">>,
      <<"/", "m", "y", "_">> \o Str_train }

\* data_dir = os.path.join(os.getcwd(), 'data')
data_dir(d) == d \o <<"/", "d", "a", "t", "a">>

\* '/opt/ml/processing/input'
ProcessingInput ==
    <<"/", "o", "p", "t", "/", "m", "l", "/", "p", "r", "o", "c", "e", "s",
      "s", "i", "n", "g", "/", "i", "n", "p", "u", "t">>

\* an entry of glob.glob('{}/raw/*.npy'.format(data_dir)), respectively of
\* glob.glob('{}/*.npy'.format('/opt/ml/processing/input'))
GlobPath(p, d, f) ==
    IF p = "module02"
    THEN data_dir(d) \o <<"/", "r", "a", "w", "/">> \o NameChars(f)
    ELSE ProcessingInput \o <<"/">> \o NameChars(f)

-----------------------------------------------------------------------------
(* Arrays *)

RECURSIVE SumSeq(_)
SumSeq(s) == IF s = <<>> THEN 0 ELSE Head(s) + SumSeq(Tail(s))

FeatureRows == [Columns -> FeatureValues]
Matrices(maxr) == UNION { [1..n -> FeatureRows] : n \in 1..maxr }

\* a feature matrix as np.load returns it: the value at (i, c) is
\* rows[i][c] / sqrt(den[c]); a raw matrix has den = 1
RawFeatures(rows) ==
    [kind |-> "features", rows |-> rows, den |-> [c \in Columns |-> 1]]
Labels(rows) == [kind |-> "labels", rows |-> rows]

NumRows(a) == Len(a.rows)
Col(a, c) == [i \in 1..Len(a.rows) |-> a.rows[i][c]]
ColSq(a, c) == [i \in 1..Len(a.rows) |-> a.rows[i][c] * a.rows[i][c]]

\* the column's mean is 0
ColMeanIsZero(a, c) == SumSeq(Col(a, c)) = 0
\* n^2 * den * (population variance of the column)
ColVarNum(a, c) ==
    NumRows(a) * SumSeq(ColSq(a, c)) - SumSeq(Col(a, c)) * SumSeq(Col(a, c))
\* the column's population variance is 1, respectively 0
ColVarIsOne(a, c) == ColVarNum(a, c) = NumRows(a) * NumRows(a) * a.den[c]
ColVarIsZero(a, c) == ColVarNum(a, c) = 0
ColIsConstant(a, c) == \A i, j \in 1..NumRows(a) : a.rows[i][c] = a.rows[j][c]

\* (x_train, y_train), (x_test, y_test) = boston_housing.load_data(): features
\* and labels of a partition have the same number of rows
LoadDataResults ==
    { [x_train |-> RawFeatures(xt),
       y_train |-> Labels([i \in 1..Len(xt) |-> 10 + i]),
       x_test  |-> RawFeatures(xs),
       y_test  |-> Labels([i \in 1..Len(xs) |-> 20 + i])] :
         xt \in Matrices(MaxRows), xs \in Matrices(MaxTestRows) }

DataOf(d, f) ==
    CASE f = "x_train.npy" -> d.x_train
      [] f = "y_train.npy" -> d.y_train
      [] f = "x_test.npy"  -> d.x_test
      [] f = "y_test.npy"  -> d.y_test

-----------------------------------------------------------------------------
(* sklearn.preprocessing.StandardScaler on exact numbers *)

\* scaler.fit(x): per column the mean sum/n and the scale sqrt(q)/n, where
\* q = n * sum of squares - sum^2; a column of zero variance gets scale 1
\* (sklearn replaces a zero scale by 1), that is sqrt(n*n)/n
StandardScalerFit(x) ==
    LET n == NumRows(x) IN
    [kind |-> "fitted",
     n    |-> n,
     sum  |-> [c \in Columns |-> SumSeq(Col(x, c))],
     den  |-> [c \in Columns |->
                 IF ColVarNum(x, c) = 0 THEN n * n ELSE ColVarNum(x, c)]]

\* a transform that divides by the scale without subtracting the mean
StandardScalerTransform_NoCentering(sc, x) ==
    [kind |-> "features",
     rows |-> [i \in 1..NumRows(x) |->
                 [c \in Columns |-> sc.n * x.rows[i][c]]],
     den  |-> sc.den]

\* scaler.transform(x): (v - mean) / scale = (n*v - sum) / sqrt(den)
StandardScalerTransform(sc, x) ==
    [kind |-> "features",
     rows |-> [i \in 1..NumRows(x) |->
                 [c \in Columns |-> sc.n * x.rows[i][c] - sc.sum[c]]],
     den  |-> sc.den]

-----------------------------------------------------------------------------
(* Files *)

RawFile(f) == <<"raw", f>>
TrainX == <<"train", "x_train.npy">>
TrainY == <<"train", "y_train.npy">>
TestX == <<"test", "x_test.npy">>
TestY == <<"test", "y_test.npy">>
ModelDir == <<"model", "1">>
OutputFiles == {TrainX, TrainY, TestX, TestY}
Locations == {RawFile(f) : f \in FileNames} \cup OutputFiles \cup {ModelDir}

SavedModel == [kind |-> "savedmodel"]

\* the files of `locs`, in order, that np.load reads before the first missing one
RECURSIVE PresentPrefix(_, _)
PresentPrefix(f, locs) ==
    IF locs = <<>> \/ f[Head(locs)] = NoFile
    THEN <<>>
    ELSE <<Head(locs)>> \o PresentPrefix(f, Tail(locs))

Reads(stage, locs, w) ==
    {[stage |-> stage, loc |-> locs[i], fresh |-> locs[i] \in w] :
        i \in 1..Len(locs)}

-----------------------------------------------------------------------------
(* The order of the cells of module 02 and of the statements of            *)
(* preprocessing.py                                                        *)

\* an order in which the scaler is fitted only after the loop
NextPc_FitAfterLoop(p, c) ==
    IF p = "module02"
    THEN CASE c = "dirs"       -> "load_data"
           [] c = "load_data"  -> "save_raw"
           [] c = "save_raw"   -> "glob"
           [] c = "glob"       -> "loop"
           [] c = "loop"       -> "fit"
           [] c = "fit"        -> "train"
           [] c = "train"      -> "save_model"
           [] c = "save_model" -> "score"
           [] c = "score"      -> "end"
    ELSE CASE c = "glob"       -> "loop"
           [] c = "loop"       -> "fit"
           [] c = "fit"        -> "end"

NextPc(p, c) ==
    IF p = "module02"
    THEN CASE c = "dirs"       -> "load_data"
           [] c = "load_data"  -> "save_raw"
           [] c = "save_raw"   -> "fit"
           [] c = "fit"        -> "glob"
           [] c = "glob"       -> "loop"
           [] c = "loop"       -> "train"
           [] c = "train"      -> "save_model"
           [] c = "save_model" -> "score"
           [] c = "score"      -> "end"
    ELSE CASE c = "glob"       -> "fit"
           [] c = "fit"        -> "loop"
           [] c = "loop"       -> "end"

FirstPc(p) == IF p = "module02" THEN "dirs" ELSE "glob"

\* after a cell: the next cell, or the end of the run
Advance(c) ==
    /\ pc' = NextPc(prog, c)
    /\ status' = IF NextPc(prog, c) = "end" THEN "done" ELSE "running"
    /\ error' = ""

\* an uncaught exception ends the run
Raise(e) ==
    /\ pc' = pc
    /\ status' = "failed"
    /\ error' = e

At(c) == status = "running" /\ pc = c

-----------------------------------------------------------------------------
(* Initial states *)

FreshKernel ==
    /\ env = [x_train |-> Unbound, y_train |-> Unbound,
              x_test |-> Unbound, y_test |-> Unbound]
    /\ scaler = Unbound
    /\ input_files = {}
    /\ raw = Unbound
    /\ transformed = Unbound
    /\ model = Unbound
    /\ error = ""
    /\ fitLog = <<>>
    /\ transformLog = {}
    /\ written = {}
    /\ readLog = {}

\* module 02 opened in a fresh clone: no data file exists yet
InitModule02 ==
    /\ prog = "module02"
    /\ cwd \in WorkDirs
    /\ ds \in LoadDataResults
    /\ fs = [l \in Locations |-> NoFile]

\* preprocessing.py in its processing container: the four raw files that the
\* lab notebook saved and uploaded are in /opt/ml/processing/input
InitPreprocessing ==
    /\ prog = "preprocessing.py"
    /\ cwd = <<"/">>
    /\ ds \in LoadDataResults
    /\ fs = [l \in Locations |->
               IF l[1] = "raw" THEN DataOf(ds, l[2]) ELSE NoFile]

\* the variables of the programs a specification leaves out
IdleData ==
    /\ prog = "none"
    /\ cwd = <<"/">>
    /\ ds = Unbound
    /\ fs = <<>>
    /\ run = 0
    /\ pc = "end"
    /\ status = "done"
    /\ FreshKernel

IdlePipeline ==
    /\ p_pc = "end"
    /\ p_status = "done"
    /\ upserted = FALSE
    /\ execution = "none"
    /\ parameters = <<>>
    /\ stepStatus = <<>>
    /\ startedAfter = <<>>
    /\ jobs = <<>>

IdleScore ==
    /\ s_pc = "end"
    /\ s_status = "done"
    /\ s_run = 0
    /\ scores = Unbound
    /\ report = NoFile
    /\ reportLog = <<>>

IdleLab ==
    /\ n_pc = "end"
    /\ n_status = "done"
    /\ n_run = 0
    /\ execution_role = Unbound
    /\ tuning_predictor = Unbound
    /\ endpoints = {}
    /\ raised = {}
    /\ n_x_test = Unbound
    /\ n_jobs = <<>>
    /\ handed = {}

Init ==
    /\ InitModule02 \/ InitPreprocessing
    /\ run = 1
    /\ pc = FirstPc(prog)
    /\ status = "running"
    /\ FreshKernel
    /\ IdlePipeline /\ IdleScore /\ IdleLab

-----------------------------------------------------------------------------
(* Module 02, cells before the preprocessing *)

\* os.makedirs(..., exist_ok=True) for data, data/train, data/test, data/raw
MakeDirs ==
    /\ At("dirs")
    /\ Advance("dirs")
    /\ UNCHANGED <<pipeVars, scoreVars, labVars>>
    /\ UNCHANGED <<prog, cwd, ds, run, fs, env, scaler, input_files, raw,
                   transformed, model, fitLog, transformLog, written, readLog>>

\* (x_train, y_train), (x_test, y_test) = boston_housing.load_data()
LoadData ==
    /\ At("load_data")
    /\ env' = [x_train |-> ds.x_train, y_train |-> ds.y_train,
               x_test |-> ds.x_test, y_test |-> ds.y_test]
    /\ Advance("load_data")
    /\ UNCHANGED <<pipeVars, scoreVars, labVars>>
    /\ UNCHANGED <<prog, cwd, ds, run, fs, scaler, input_files, raw,
                   transformed, model, fitLog, transformLog, written, readLog>>

\* np.save(os.path.join(raw_dir, 'x_train.npy'), x_train) and the three others
SaveRaw ==
    /\ At("save_raw")
    /\ fs' = [l \in Locations |->
                CASE l = RawFile("x_train.npy") -> env.x_train
                  [] l = RawFile("x_test.npy")  -> env.x_test
                  [] l = RawFile("y_train.npy") -> env.y_train
                  [] l = RawFile("y_test.npy")  -> env.y_test
                  [] OTHER -> fs[l]]
    /\ written' = written \cup {RawFile(f) : f \in FileNames}
    /\ Advance("save_raw")
    /\ UNCHANGED <<pipeVars, scoreVars, labVars>>
    /\ UNCHANGED <<prog, cwd, ds, run, env, scaler, input_files, raw,
                   transformed, model, fitLog, transformLog, readLog>>

-----------------------------------------------------------------------------
(* The preprocessing: module 02's two cells and preprocessing.py *)

\* a fit on the test features
FitFile_XTest == <<"raw", "x_test.npy">>

\* the file whose content is passed to scaler.fit
FitFile == RawFile("x_train.npy")

\* scaler = StandardScaler(); x_train = np.load(<raw>/x_train.npy);
\* scaler.fit(x_train)
Fit ==
    /\ At("fit")
    /\ IF fs[FitFile] = NoFile
       THEN /\ scaler' = Unfitted
            /\ Raise("FileNotFoundError")
            /\ UNCHANGED <<env, fitLog, readLog>>
       ELSE /\ env' = [env EXCEPT !.x_train = fs[FitFile]]
            /\ scaler' = StandardScalerFit(fs[FitFile])
            /\ fitLog' = Append(fitLog, fs[FitFile])
            /\ readLog' = readLog \cup Reads("fit", <<FitFile>>, written)
            /\ Advance("fit")
    /\ UNCHANGED <<pipeVars, scoreVars, labVars>>
    /\ UNCHANGED <<prog, cwd, ds, run, fs, input_files, raw, transformed,
                   model, transformLog, written>>

\* input_files = glob.glob(...): the .npy files of the raw directory, in an
\* order the file system chooses; the loop below visits them in any order
Glob ==
    /\ At("glob")
    /\ input_files' = {f \in FileNames : fs[RawFile(f)] # NoFile}
    /\ Advance("glob")
    /\ UNCHANGED <<pipeVars, scoreVars, labVars>>
    /\ UNCHANGED <<prog, cwd, ds, run, fs, env, scaler, raw, transformed,
                   model, fitLog, transformLog, written, readLog>>

\* the output file the loop body saves to, for a glob entry `file`
OutputPath(file) ==
    IF Contains(file, Str_train)
    THEN IF Contains(file, Str_y_) THEN TrainY ELSE TrainX
    ELSE IF Contains(file, Str_y_) THEN TestY ELSE TestX

\* only transform feature columns: if 'y_' not in file
IsTransformed(file) == ~Contains(file, Str_y_)

\* one pass of `for file in input_files:` for the entry named f
LoopBody(f) ==
    LET file == GlobPath(prog, cwd, f)
        r == fs[RawFile(f)]
        t == IF IsTransformed(file)
             THEN StandardScalerTransform(scaler, r)
             ELSE transformed
        \* np.save(output_path, raw) if 'y_' in file,
        \* np.save(output_path, transformed) otherwise
        out == IF Contains(file, Str_y_) THEN r ELSE t
    IN
    /\ At("loop")
    /\ f \in input_files
    /\ raw' = r
    /\ readLog' = readLog \cup Reads("loop", <<RawFile(f)>>, written)
    /\ IF IsTransformed(file) /\ scaler.kind # "fitted"
       THEN /\ Raise(IF scaler = Unbound THEN "NameError" ELSE "NotFittedError")
            /\ UNCHANGED <<fs, transformed, transformLog, written, input_files>>
       ELSE /\ transformed' = t
            /\ transformLog' =
                 IF IsTransformed(file)
                 THEN transformLog \cup {[file |-> f, by |-> scaler, out |-> t]}
                 ELSE transformLog
            /\ fs' = [fs EXCEPT ![OutputPath(file)] = out]
            /\ written' = written \cup {OutputPath(file)}
            /\ input_files' = input_files \ {f}
            /\ IF input_files \ {f} = {}
               THEN Advance("loop")
               ELSE UNCHANGED <<pc, status, error>>
    /\ UNCHANGED <<pipeVars, scoreVars, labVars>>
    /\ UNCHANGED <<prog, cwd, ds, run, env, scaler, model, fitLog>>

-----------------------------------------------------------------------------
(* Module 02, training and scoring *)

\* x_train, y_train = get_train_data(train_dir);
\* x_test, y_test = get_test_data(test_dir); model.fit(...); model.evaluate(...)
Train ==
    LET wanted == <<TrainX, TrainY, TestX, TestY>>
        got == PresentPrefix(fs, wanted)
    IN
    /\ At("train")
    /\ readLog' = readLog \cup Reads("train", got, written)
    /\ env' = [x_train |-> IF Len(got) >= 1 THEN fs[TrainX] ELSE env.x_train,
               y_train |-> IF Len(got) >= 2 THEN fs[TrainY] ELSE env.y_train,
               x_test  |-> IF Len(got) >= 3 THEN fs[TestX] ELSE env.x_test,
               y_test  |-> IF Len(got) >= 4 THEN fs[TestY] ELSE env.y_test]
    /\ IF Len(got) < Len(wanted)
       THEN Raise("FileNotFoundError") /\ UNCHANGED model
       ELSE IF \/ NumRows(fs[TrainX]) # NumRows(fs[TrainY])
               \/ NumRows(fs[TestX]) # NumRows(fs[TestY])
            THEN Raise("ValueError") /\ UNCHANGED model
            ELSE model' = [kind |-> "fitted"] /\ Advance("train")
    /\ UNCHANGED <<pipeVars, scoreVars, labVars>>
    /\ UNCHANGED <<prog, cwd, ds, run, fs, scaler, input_files, raw,
                   transformed, fitLog, transformLog, written>>

\* model.save('model' + '/1')
SaveModel ==
    /\ At("save_model")
    /\ fs' = [fs EXCEPT ![ModelDir] = SavedModel]
    /\ written' = written \cup {ModelDir}
    /\ Advance("save_model")
    /\ UNCHANGED <<pipeVars, scoreVars, labVars>>
    /\ UNCHANGED <<prog, cwd, ds, run, env, scaler, input_files, raw,
                   transformed, model, fitLog, transformLog, readLog>>

\* model = tf.keras.models.load_model('model/1'); x_test = np.load(...);
\* y_test = np.load(...); scores = model.evaluate(x_test, y_test, verbose=2)
Score ==
    LET wanted == <<ModelDir, TestX, TestY>>
        got == PresentPrefix(fs, wanted)
    IN
    /\ At("score")
    /\ readLog' = readLog \cup Reads("score", got, written)
    /\ model' = IF Len(got) >= 1 THEN [kind |-> "fitted"] ELSE model
    /\ env' = [env EXCEPT
                 !.x_test = IF Len(got) >= 2 THEN fs[TestX] ELSE @,
                 !.y_test = IF Len(got) >= 3 THEN fs[TestY] ELSE @]
    /\ IF Len(got) < Len(wanted)
       THEN Raise("FileNotFoundError")
       ELSE Advance("score")
    /\ UNCHANGED <<pipeVars, scoreVars, labVars>>
    /\ UNCHANGED <<prog, cwd, ds, run, fs, scaler, input_files, raw,
                   transformed, fitLog, transformLog, written>>

\* the notebook is run top to bottom again, in a restarted kernel, in the same
\* working directory: the files of the earlier run are still there
Restart ==
    /\ prog = "module02"
    /\ status \in {"done", "failed"}
    /\ run < MaxRuns
    /\ run' = run + 1
    /\ pc' = FirstPc(prog)
    /\ status' = "running"
    /\ env' = [x_train |-> Unbound, y_train |-> Unbound,
               x_test |-> Unbound, y_test |-> Unbound]
    /\ scaler' = Unbound
    /\ input_files' = {}
    /\ raw' = Unbound
    /\ transformed' = Unbound
    /\ model' = Unbound
    /\ error' = ""
    /\ fitLog' = <<>>
    /\ transformLog' = {}
    /\ written' = {}
    /\ readLog' = {}
    /\ UNCHANGED <<pipeVars, scoreVars, labVars>>
    /\ UNCHANGED <<prog, cwd, ds, fs>>

Next ==
    \/ MakeDirs
    \/ LoadData
    \/ SaveRaw
    \/ Fit
    \/ Glob
    \/ \E f \in FileNames : LoopBody(f)
    \/ Train
    \/ SaveModel
    \/ Score
    \/ Restart

Spec == Init /\ [][Next]_vars

-----------------------------------------------------------------------------
(* Lab 04: the TF2Workflow pipeline *)

\* the files of a ProcessingInput each of the n instances of a job receives:
\* all of them, or with ShardedByS3Key 1/n of them each (which ones is the
\* service's choice)
InstanceFiles(distribution, n, files) ==
    IF distribution = "ShardedByS3Key"
    THEN {sh \in {[i \in 1..n |-> {f \in files : a[f] = i}] :
                     a \in [files -> 1..n]} :
            \A i, j \in 1..n :
              Cardinality(sh[i]) <= Cardinality(sh[j]) + 1}
    ELSE {[i \in 1..n |-> files]}

\* steps=[step_process, step_train, step_create_model, step_batch]
Steps == {"TF2Process", "TF2WorkflowTrain", "TF2WorkflowCreateModel",
          "TF2WorkflowBatchScoring"}

\* a batch scoring step that takes the test data of the processing step and
\* a model from a fixed place
StepReferences_BatchWithoutTrain(s) ==
    CASE s = "TF2Process"              -> {}
      [] s = "TF2WorkflowTrain"        -> {"TF2Process"}
      [] s = "TF2WorkflowCreateModel"  -> {"TF2WorkflowTrain"}
      [] s = "TF2WorkflowBatchScoring" -> {"TF2Process"}

\* the steps whose properties a step's definition refers to
\* (step_process.properties..., step_train.properties...): the pipeline
\* service runs a step only when the steps it refers to have succeeded
StepReferences(s) ==
    CASE s = "TF2Process"              -> {}
      [] s = "TF2WorkflowTrain"        -> {"TF2Process"}
      [] s = "TF2WorkflowCreateModel"  -> {"TF2WorkflowTrain"}
      [] s = "TF2WorkflowBatchScoring" -> {"TF2WorkflowTrain", "TF2Process"}

\* a parameters list from which batch_instance_count was left out
PipelineParameters_WithoutBatchInstanceCount ==
    << "InputData", "ProcessingInstanceType", "ProcessingInstanceCount",
       "TrainingInstanceType", "TrainingInstanceCount", "BatchInstanceType" >>

\* Pipeline(parameters=[input_data, processing_instance_type,
\*     processing_instance_count, training_instance_type,
\*     training_instance_count, batch_instance_type, batch_instance_count]),
\* each by the name it was declared with
PipelineParameters ==
    << "InputData", "ProcessingInstanceType", "ProcessingInstanceCount",
       "TrainingInstanceType", "TrainingInstanceCount", "BatchInstanceType",
       "BatchInstanceCount" >>

DeclaredParameters == {PipelineParameters[i] : i \in DOMAIN PipelineParameters}

\* ParameterString(name=..., default_value=...) and
\* ParameterInteger(name=..., default_value=1)
ParameterDefault(name) ==
    CASE name = "InputData"              -> "raw_s3"
      [] name = "ProcessingInstanceType" -> "ml.m5.xlarge"
      [] name = "TrainingInstanceType"   -> "ml.c5.2xlarge"
      [] name = "BatchInstanceType"      -> "ml.c5.xlarge"
      [] OTHER                           -> 1

DefaultParameters == [name \in DeclaredParameters |-> ParameterDefault(name)]

\* the parameters the definition of a step refers to: in its processor or
\* estimator, its image_uri and its inputs
StepParameterReferences(s) ==
    CASE s = "TF2Process" ->
           {"InputData", "ProcessingInstanceType", "ProcessingInstanceCount"}
      [] s = "TF2WorkflowTrain" ->
           {"TrainingInstanceType", "TrainingInstanceCount"}
      [] s = "TF2WorkflowCreateModel" ->
           {"BatchInstanceType"}
      [] s = "TF2WorkflowBatchScoring" ->
           {"BatchInstanceType", "BatchInstanceCount"}

\* the values the service puts in place of the parameters a step refers to
Arguments(s, params) ==
    [name \in StepParameterReferences(s) \cap DOMAIN params |-> params[name]]

\* ProcessingInput(source=input_data, ...,
\*                 s3_data_distribution_type='ShardedByS3Key')
StepProcessInputDistribution == "ShardedByS3Key"

\* where preprocessing.py saves a file of /opt/ml/processing/input
ContainerOutput(f) == OutputPath(ProcessingInput \o <<"/">> \o NameChars(f))

\* preprocessing.py on an instance whose input directory holds `files`:
\* np.load of x_train.npy raises when the file is not there, otherwise every
\* file of the directory is saved to its output
InstanceOutcome(files) ==
    IF "x_train.npy" \notin files
    THEN [status |-> "Failed", error |-> "FileNotFoundError", outputs |-> {}]
    ELSE [status |-> "Completed", error |-> "",
          outputs |-> {ContainerOutput(f) : f \in files}]

\* a decimal number n/d, kept exact
Decimal(n, d) == [num |-> n, den |-> d]

DecimalLeq(a, b) == a.num * b.den <= b.num * a.den

\* lab 03: hyperparameters = {'epochs': 70, 'batch_size': 128,
\*                            'learning_rate': 0.01}
hyperparameters_HostedEstimator ==
    [epochs |-> Decimal(70, 1), batch_size |-> Decimal(128, 1),
     learning_rate |-> Decimal(1, 100), for_pipeline |-> "true"]

\* training_parameters = {'epochs': 21, 'batch_size': 247,
\*                        'learning_rate': 0.138448, 'for_pipeline': 'true'}
training_parameters ==
    [epochs |-> Decimal(21, 1), batch_size |-> Decimal(247, 1),
     learning_rate |-> Decimal(138448, 1000000), for_pipeline |-> "true"]

\* lab 03: hyperparameter_ranges = {
\*   'learning_rate': ContinuousParameter(0.001, 0.2, ...),
\*   'epochs': IntegerParameter(10, 50),
\*   'batch_size': IntegerParameter(64, 256) }
hyperparameter_ranges ==
    [learning_rate |-> [type |-> "Continuous", min_value |-> Decimal(1, 1000),
                        max_value |-> Decimal(2, 10)],
     epochs        |-> [type |-> "Integer", min_value |-> Decimal(10, 1),
                        max_value |-> Decimal(50, 1)],
     batch_size    |-> [type |-> "Integer", min_value |-> Decimal(64, 1),
                        max_value |-> Decimal(256, 1)]]

\* the jobs the service may create for step s of an execution
Jobs(s, params) ==
    CASE s = "TF2WorkflowTrain" ->
           {[step |-> s, arguments |-> Arguments(s, params),
             hyperparameters |-> training_parameters]}
      [] s = "TF2Process" ->
           {[step |-> s, arguments |-> Arguments(s, params),
             instances |-> inst] :
              inst \in InstanceFiles(StepProcessInputDistribution,
                                     params.ProcessingInstanceCount,
                                     FileNames)}
      [] OTHER ->
           {[step |-> s, arguments |-> Arguments(s, params)]}

\* how the job of a step can end: a processing job fails when the script
\* fails on one of its instances, and any job can fail in the service
JobResults(job) ==
    IF /\ job.step = "TF2Process"
       /\ \E i \in DOMAIN job.instances :
            InstanceOutcome(job.instances[i]).status = "Failed"
    THEN {"Failed"}
    ELSE {"Succeeded", "Failed"}

\* the files the instances of the processing job leave in its outputs
ProcessOutputs(job) ==
    UNION {InstanceOutcome(job.instances[i]).outputs :
             i \in DOMAIN job.instances}

Succeeded == {s \in Steps : stepStatus[s] = "Succeeded"}

InitPipeline ==
    /\ p_pc = "define"
    /\ p_status = "running"
    /\ upserted = FALSE
    /\ execution = "none"
    /\ parameters = DefaultParameters
    /\ stepStatus = [s \in Steps |-> "NotStarted"]
    /\ startedAfter = [s \in Steps |-> {}]
    /\ jobs = [s \in Steps |-> Unbound]
    /\ IdleData /\ IdleScore /\ IdleLab

PAt(c) == p_status = "running" /\ p_pc = c

\* the cells that build the parameters, the steps and the Pipeline object
DefinePipeline ==
    /\ PAt("define")
    /\ p_pc' = "upsert"
    /\ UNCHANGED <<p_status, upserted, execution, parameters, stepStatus,
                   startedAfter, jobs>>
    /\ UNCHANGED <<dataVars, scoreVars, labVars>>

\* pipeline.upsert(role_arn=role)
Upsert ==
    /\ PAt("upsert")
    /\ \/ upserted' = TRUE /\ p_pc' = "start" /\ UNCHANGED p_status
       \/ p_status' = "failed" /\ UNCHANGED <<upserted, p_pc>>
    /\ UNCHANGED <<execution, parameters, stepStatus, startedAfter, jobs>>
    /\ UNCHANGED <<dataVars, scoreVars, labVars>>

\* execution = pipeline.start(): the notebook starts the execution with the
\* default parameter values; pipeline.start(parameters=...) overrides them
StartExecution ==
    /\ PAt("start")
    /\ IF upserted
       THEN /\ execution' = "Executing"
            /\ \E n \in 1..MaxInstanceCount :
                 parameters' =
                   [DefaultParameters EXCEPT !.ProcessingInstanceCount = n]
            /\ p_pc' = "describe"
            /\ UNCHANGED p_status
       ELSE p_status' = "failed" /\ UNCHANGED <<execution, parameters, p_pc>>
    /\ UNCHANGED <<upserted, stepStatus, startedAfter, jobs>>
    /\ UNCHANGED <<dataVars, scoreVars, labVars>>

\* execution.describe()
Describe ==
    /\ PAt("describe")
    /\ p_pc' = "wait"
    /\ UNCHANGED <<p_status, upserted, execution, parameters, stepStatus,
                   startedAfter, jobs>>
    /\ UNCHANGED <<dataVars, scoreVars, labVars>>

\* a wait that returns at once
WaitExecution_NoWait ==
    /\ PAt("wait")
    /\ p_pc' = "report"
    /\ UNCHANGED <<p_status, upserted, execution, parameters, stepStatus,
                   startedAfter, jobs>>
    /\ UNCHANGED <<dataVars, scoreVars, labVars>>

\* execution.wait(); execution.list_steps(): wait returns when the execution
\* has succeeded and raises when it has failed
WaitExecution ==
    /\ PAt("wait")
    /\ execution \in {"Succeeded", "Failed"}
    /\ IF execution = "Succeeded"
       THEN p_pc' = "report" /\ UNCHANGED p_status
       ELSE p_status' = "failed" /\ UNCHANGED p_pc
    /\ UNCHANGED <<upserted, execution, parameters, stepStatus, startedAfter,
                   jobs>>
    /\ UNCHANGED <<dataVars, scoreVars, labVars>>

\* !aws s3 cp {report_path} ./score-report.txt --quiet && cat score-report.txt
FetchReport ==
    /\ PAt("report")
    /\ p_pc' = "end"
    /\ p_status' = "done"
    /\ UNCHANGED <<upserted, execution, parameters, stepStatus, startedAfter,
                   jobs>>
    /\ UNCHANGED <<dataVars, scoreVars, labVars>>

\* the service starts a step whose referenced steps have all succeeded
StepStart(s) ==
    /\ execution = "Executing"
    /\ stepStatus[s] = "NotStarted"
    /\ \A t \in Steps : stepStatus[t] # "Failed"
    /\ StepReferences(s) \subseteq Succeeded
    /\ stepStatus' = [stepStatus EXCEPT ![s] = "Executing"]
    /\ startedAfter' = [startedAfter EXCEPT ![s] = Succeeded]
    /\ \E j \in Jobs(s, parameters) : jobs' = [jobs EXCEPT ![s] = j]
    /\ UNCHANGED <<p_pc, p_status, upserted, execution, parameters>>
    /\ UNCHANGED <<dataVars, scoreVars, labVars>>

\* the job of a step ends
StepEnd(s) ==
    /\ stepStatus[s] = "Executing"
    /\ \E result \in JobResults(jobs[s]) :
         stepStatus' = [stepStatus EXCEPT ![s] = result]
    /\ UNCHANGED <<p_pc, p_status, upserted, execution, parameters, startedAfter,
                   jobs>>
    /\ UNCHANGED <<dataVars, scoreVars, labVars>>

\* the execution ends when no step runs and none can start any more
ExecutionEnd ==
    /\ execution = "Executing"
    /\ \A s \in Steps : stepStatus[s] # "Executing"
    /\ \/ /\ \A s \in Steps : stepStatus[s] = "Succeeded"
          /\ execution' = "Succeeded"
       \/ /\ \E s \in Steps : stepStatus[s] = "Failed"
          /\ execution' = "Failed"
    /\ UNCHANGED <<p_pc, p_status, upserted, parameters, stepStatus, startedAfter,
                   jobs>>
    /\ UNCHANGED <<dataVars, scoreVars, labVars>>

NextPipeline ==
    \/ DefinePipeline
    \/ Upsert
    \/ StartExecution
    \/ Describe
    \/ WaitExecution
    \/ FetchReport
    \/ \E s \in Steps : StepStart(s)
    \/ \E s \in Steps : StepEnd(s)
    \/ ExecutionEnd

SpecPipeline == InitPipeline /\ [][NextPipeline]_vars

Started(s) == stepStatus[s] # "NotStarted"

\* C3: in any execution of TF2Workflow the training step TF2WorkflowTrain has
\* not started unless the processing step TF2Process has completed, and the
\* batch scoring step TF2WorkflowBatchScoring has not started unless
\* TF2WorkflowTrain (and so TF2Process) has completed
C3_StepsRunInSequence ==
    /\ Started("TF2WorkflowTrain") =>
         /\ stepStatus["TF2Process"] = "Succeeded"
         /\ "TF2Process" \in startedAfter["TF2WorkflowTrain"]
    /\ Started("TF2WorkflowBatchScoring") =>
         /\ stepStatus["TF2WorkflowTrain"] = "Succeeded"
         /\ stepStatus["TF2Process"] = "Succeeded"
         /\ {"TF2Process", "TF2WorkflowTrain"}
              \subseteq startedAfter["TF2WorkflowBatchScoring"]

\* the batch scoring step runs, after the two others have completed
C3_Witness ==
    /\ stepStatus["TF2WorkflowBatchScoring"] = "Executing"
    /\ stepStatus["TF2WorkflowTrain"] = "Succeeded"
    /\ stepStatus["TF2Process"] = "Succeeded"

\* a value the tuning job can try for a hyperparameter of range r
InTunedRange(v, r) ==
    /\ DecimalLeq(r.min_value, v)
    /\ DecimalLeq(v, r.max_value)
    /\ r.type = "Integer" => v.den = 1

\* C11: the hyperparameters the pipeline's training step runs with (epochs 21,
\* batch_size 247, learning_rate 0.138448) each lie inside the range the
\* lab 03 tuning job searches (epochs 10..50, batch_size 64..256,
\* learning_rate 0.001..0.2)
C11_TrainingParametersInTunedRanges ==
    Started("TF2WorkflowTrain") =>
      \A h \in DOMAIN hyperparameter_ranges :
        InTunedRange(jobs["TF2WorkflowTrain"].hyperparameters[h],
                     hyperparameter_ranges[h])

\* the training step has run with the hard-coded hyperparameters
C11_Witness ==
    /\ stepStatus["TF2WorkflowTrain"] = "Succeeded"
    /\ jobs["TF2WorkflowTrain"].hyperparameters.epochs = Decimal(21, 1)
    /\ jobs["TF2WorkflowTrain"].hyperparameters.learning_rate
         = Decimal(138448, 1000000)

\* C13: in lab 04 the pipeline is started only after its definition has been
\* upserted, and the score report is fetched only after execution.wait() has
\* returned, that is after the execution, its batch scoring step included,
\* has finished
C13_StartAfterUpsertReportAfterWait ==
    /\ execution # "none" => upserted
    /\ p_pc \in {"report", "end"} =>
         /\ execution = "Succeeded"
         /\ stepStatus["TF2WorkflowBatchScoring"] = "Succeeded"

\* the report has been fetched
C13_Witness ==
    /\ p_pc = "end"
    /\ p_status = "done"
    /\ upserted
    /\ execution = "Succeeded"

\* C15: for every ProcessingInstanceCount n >= 1 each of the n instances of
\* the processing step has x_train.npy among its input files, and the step as
\* a whole produces all four outputs.
C15_EveryInstanceHasXTrain ==
    Started("TF2Process") =>
      /\ \A i \in DOMAIN jobs["TF2Process"].instances :
           "x_train.npy" \in jobs["TF2Process"].instances[i]
      /\ ProcessOutputs(jobs["TF2Process"]) = OutputFiles

\* C19: every parameter a step of TF2Workflow refers to (the seven of the
\* claim) is declared in the Pipeline's parameters list and gets a value in
\* the step's job, every declared parameter is referred to by some step, and
\* the declared names are pairwise distinct
C19_ParametersDeclaredAndReferenced ==
    /\ \A s \in Steps :
         /\ StepParameterReferences(s) \subseteq DeclaredParameters
         /\ Started(s) =>
              /\ StepParameterReferences(s) \subseteq DOMAIN parameters
              /\ DOMAIN jobs[s].arguments = StepParameterReferences(s)
    /\ UNION {StepParameterReferences(s) : s \in Steps} =
         {"InputData", "ProcessingInstanceType", "ProcessingInstanceCount",
          "TrainingInstanceType", "TrainingInstanceCount",
          "BatchInstanceType", "BatchInstanceCount"}
    /\ DeclaredParameters \subseteq
         UNION {StepParameterReferences(s) : s \in Steps}
    /\ \A i, j \in DOMAIN PipelineParameters :
         PipelineParameters[i] = PipelineParameters[j] => i = j

\* every step has run, each with the values of the parameters it refers to
C19_Witness ==
    /\ \A s \in Steps : stepStatus[s] = "Succeeded"
    /\ jobs["TF2WorkflowBatchScoring"].arguments.BatchInstanceCount = 1
    /\ jobs["TF2Process"].arguments.ProcessingInstanceCount = 1

-----------------------------------------------------------------------------
(* batch-score.py *)

\* what model.evaluate may return
ScoreValues == 0..MaxScore

Newline == [text |-> "\n"]

\* f"Test MSE : {scores}": the literal text followed by str(scores); neither
\* piece holds a newline
FormatReport(v) == <<[text |-> "Test MSE : "], [number |-> v]>>

TextFile(text) == [kind |-> "file", text |-> text]

\* a file opened for appending keeps what it held
OpenAppendAndWrite(old, text) ==
    IF old = NoFile THEN TextFile(text) ELSE TextFile(old.text \o text)

\* with open(evaluation_path, 'w') as writer: writer.write(text): the file is
\* created or truncated, then holds the text
OpenAndWrite(old, text) == TextFile(text)

\* the lines of a file's text: one more than the newlines in it
NumLines(content) ==
    1 + Cardinality({i \in 1..Len(content) : content[i] = Newline})

InitScore ==
    /\ s_pc = "install"
    /\ s_status = "running"
    /\ s_run = 1
    /\ scores = Unbound
    /\ report = NoFile
    /\ reportLog = <<>>
    /\ IdleData /\ IdlePipeline /\ IdleLab

SAt(c) == s_status = "running" /\ s_pc = c

\* a statement of batch-score.py whose library call returns or raises
ScoreStatement(c, next) ==
    /\ SAt(c)
    /\ \/ s_pc' = next /\ UNCHANGED s_status
       \/ s_status' = "failed" /\ UNCHANGED s_pc
    /\ UNCHANGED <<s_run, scores, report, reportLog>>
    /\ UNCHANGED <<dataVars, pipeVars, labVars>>

\* install('tensorflow==2.3.1'): subprocess.check_call of pip
Install == ScoreStatement("install", "extract")

\* with tarfile.open(model_path, 'r:gz') as tar: tar.extractall('./model')
ExtractModel == ScoreStatement("extract", "load_model")

\* model = tf.keras.models.load_model('./model/1')
LoadModel == ScoreStatement("load_model", "load_test")

\* x_test = np.load(...); y_test = np.load(...)
LoadTestData == ScoreStatement("load_test", "evaluate")

\* scores = model.evaluate(x_test, y_test, verbose=2)
Evaluate ==
    /\ SAt("evaluate")
    /\ \/ \E v \in ScoreValues :
            scores' = v /\ s_pc' = "write" /\ UNCHANGED s_status
       \/ s_status' = "failed" /\ UNCHANGED <<s_pc, scores>>
    /\ UNCHANGED <<s_run, report, reportLog>>
    /\ UNCHANGED <<dataVars, pipeVars, labVars>>

\* pathlib.Path(output_dir).mkdir(parents=True, exist_ok=True);
\* with open(evaluation_path, 'w') as writer:
\*     writer.write(f"Test MSE : {scores}")
WriteReport ==
    /\ SAt("write")
    /\ report' = OpenAndWrite(report, FormatReport(scores))
    /\ reportLog' = Append(reportLog, scores)
    /\ s_pc' = "end"
    /\ s_status' = "done"
    /\ UNCHANGED <<s_run, scores>>
    /\ UNCHANGED <<dataVars, pipeVars, labVars>>

\* batch-score.py is run again: in a new container, where the report does not
\* exist, or in the same file system, where it is as the earlier run left it
RunAgain ==
    /\ s_status \in {"done", "failed"}
    /\ s_run < MaxRuns
    /\ s_run' = s_run + 1
    /\ s_pc' = "install"
    /\ s_status' = "running"
    /\ scores' = Unbound
    /\ report' \in {report, NoFile}
    /\ UNCHANGED reportLog
    /\ UNCHANGED <<dataVars, pipeVars, labVars>>

NextScore ==
    \/ Install
    \/ ExtractModel
    \/ LoadModel
    \/ LoadTestData
    \/ Evaluate
    \/ WriteReport
    \/ RunAgain

SpecScore == InitScore /\ [][NextScore]_vars

\* C7: after any number of runs of batch-score.py the report, when it exists,
\* is exactly the one line 'Test MSE : <value>' of the latest run that wrote
\* it, and a run that has completed leaves its own value there: a run replaces
\* the file and does not append to it
C7_ReportIsOneLineOfLatestRun ==
    /\ report # NoFile =>
         /\ reportLog # <<>>
         /\ report.text = FormatReport(reportLog[Len(reportLog)])
         /\ NumLines(report.text) = 1
    /\ s_status = "done" =>
         /\ report = TextFile(FormatReport(scores))
         /\ scores \in ScoreValues

\* a second run has written a value other than the one the first run wrote
C7_Witness ==
    /\ s_status = "done"
    /\ Len(reportLog) = 2
    /\ reportLog[1] # reportLog[2]
    /\ report = TextFile(FormatReport(reportLog[2]))

-----------------------------------------------------------------------------
(* Properties of the preprocessing *)

XFiles == {"x_train.npy", "x_test.npy"}
Transformed == {e.file : e \in transformLog}
\* the for loop has visited every entry of input_files
LoopFinished == pc \in {"train", "save_model", "score", "end"}
                \/ (prog = "preprocessing.py" /\ status = "done")

C2_FitOnceBeforeTransform ==
    /\ Len(fitLog) <= 1
    /\ transformLog # {} => (Len(fitLog) = 1 /\ scaler.kind = "fitted")
    /\ \A e \in transformLog : e.by = scaler /\ e.by.kind = "fitted"
    /\ error \notin {"NotFittedError", "NameError"}

\* x_test was scaled before x_train, after the one fit
C2_Witness ==
    /\ Len(fitLog) = 1
    /\ Transformed = XFiles
    /\ "x_train.npy" \notin input_files
    /\ raw = ds.x_train

\* C4: in module 02 every file a stage reads was written by an earlier stage
\* of the same run: the raw files before the preprocessing reads them, all four
\* output files before the training cell reads data/train and data/test, and
\* model/1 and the test files before the scoring cell reads them
C4_ReadsAfterWrites ==
    prog = "module02" =>
      \A r \in readLog :
        /\ r.fresh
        /\ r.stage \in {"fit", "loop"} =>
             {RawFile(f) : f \in FileNames} \subseteq written
        /\ r.stage = "train" => OutputFiles \subseteq written
        /\ r.stage = "score" => {ModelDir, TestX, TestY} \subseteq written

\* the part of C4 that holds in every working directory: a file that is read
\* was written earlier in the same run, and the loop has ended before the
\* training cell reads
C4_ReadFilesAreFresh ==
    prog = "module02" =>
      \A r \in readLog :
        /\ r.fresh
        /\ r.stage \in {"train", "score"} => LoopFinished

\* C5: the scaling keeps the row counts: after the loop the x_train.npy of the
\* train output has the rows of the raw x_train.npy, the x_test.npy of the test
\* output has the rows of the raw x_test.npy, and features and labels of each
\* partition have equally many rows
C5_RowCountsPreserved ==
    LoopFinished =>
      /\ \A l \in OutputFiles : fs[l] # NoFile
      /\ NumRows(fs[TrainX]) = NumRows(ds.x_train)
      /\ NumRows(fs[TestX]) = NumRows(ds.x_test)
      /\ NumRows(fs[TrainX]) = NumRows(fs[TrainY])
      /\ NumRows(fs[TestX]) = NumRows(fs[TestY])

\* the part of C5 that holds in every run: scaler.transform returns as many
\* rows as it is given, and preprocessing.py, whose input directory is fixed,
\* writes the four files with the row counts of the raw ones
C5_TransformKeepsRows ==
    /\ \A e \in transformLog : NumRows(e.out) = NumRows(DataOf(ds, e.file))
    /\ (prog = "preprocessing.py" /\ status = "done") => C5_RowCountsPreserved

ZeroMeanUnitVariance(a) ==
    \A c \in Columns : ColMeanIsZero(a, c) /\ ColVarIsOne(a, c)

\* C6 as stated: the scaled training features written by the preprocessing
\* have zero mean and unit variance in every column, constant columns
\* included.  Stated for preprocessing.py, whose input directory is fixed, so
\* that the file it writes is the scaled x_train whatever the working directory
C6_ZeroMeanUnitVarianceEveryColumn ==
    (prog = "preprocessing.py" /\ status = "done") =>
      ZeroMeanUnitVariance(fs[TrainX])

\* zero mean in every column; unit variance in the columns whose raw values
\* are not all equal; all zeros (variance 0) in the others
ScaledLikeTraining(a) ==
    \A c \in Columns :
      /\ ColMeanIsZero(a, c)
      /\ ~ColIsConstant(ds.x_train, c) => ColVarIsOne(a, c)
      /\ ColIsConstant(ds.x_train, c) =>
           /\ ColVarIsZero(a, c)
           /\ \A i \in 1..NumRows(a) : a.rows[i][c] = 0

\* C6, amended: what scaler.transform returns for the raw training features
\* has zero mean in every column, unit variance in every column whose raw
\* values are not all equal and is all zeros in a column whose raw values are
\* all equal; preprocessing.py writes that array to the train output
C6_ZeroMeanUnitVarianceNonConstant ==
    /\ \A e \in transformLog :
         e.file = "x_train.npy" => ScaledLikeTraining(e.out)
    /\ (prog = "preprocessing.py" /\ status = "done") =>
         ScaledLikeTraining(fs[TrainX])

\* preprocessing.py has written training features with a column that is not
\* constant, and that column has unit variance
C6_Witness ==
    /\ prog = "preprocessing.py"
    /\ status = "done"
    /\ \E c \in Columns :
         ~ColIsConstant(ds.x_train, c) /\ ColVarIsOne(fs[TrainX], c)

\* the order x_train, y_train, x_test, y_test of the input files
CanonicalOrder == <<"x_train.npy", "y_train.npy", "x_test.npy", "y_test.npy">>

\* the files and the variable `transformed` after the loop has visited the
\* entries of `order` one after the other, from the files f and the value tr
RECURSIVE LoopResult(_, _, _)
LoopResult(order, f, tr) ==
    IF order = <<>>
    THEN [fs |-> f, transformed |-> tr]
    ELSE LET file == GlobPath(prog, cwd, Head(order))
             r == f[RawFile(Head(order))]
             t == IF IsTransformed(file)
                  THEN StandardScalerTransform(scaler, r)
                  ELSE tr
             out == IF Contains(file, Str_y_) THEN r ELSE t
         IN LoopResult(Tail(order),
                       [f EXCEPT ![OutputPath(file)] = out], t)

\* C17: in every working directory the loop of module 02 routes the four raw
\* files to four distinct outputs: scaled x_train to data/train/x_train.npy,
\* y_train to data/train/y_train.npy, scaled x_test to data/test/x_test.npy
\* and y_test to data/test/y_test.npy, no output being written from two inputs.
C17_FourFilesToFourOutputs ==
    (prog = "module02" /\ LoopFinished) =>
      /\ OutputFiles \subseteq written
      /\ fs[TrainX] = StandardScalerTransform(scaler, ds.x_train)
      /\ fs[TrainY] = ds.y_train
      /\ fs[TestX] = StandardScalerTransform(scaler, ds.x_test)
      /\ fs[TestY] = ds.y_test

\* C18: the files the loop writes do not depend on the order in which glob
\* lists the inputs: whatever order the run visited them in, each file it
\* wrote is what the loop leaves there when it visits them in the order
\* x_train, y_train, x_test, y_test.
C18_OutputsIndependentOfOrder ==
    (LoopFinished /\ scaler.kind = "fitted") =>
      \A l \in OutputFiles \cap written :
        fs[l] = LoopResult(CanonicalOrder, fs, Unbound).fs[l]

\* the part of C18 that holds in every working directory: a pass of the loop
\* that saves `transformed` has assigned it in the same pass, so what an
\* earlier pass left in the variable is never saved
C18_SavedValueIsFresh ==
    [][pc = "loop" =>
         \A l \in OutputFiles :
           fs'[l] # fs[l] =>
             \/ fs'[l] = raw'
             \/ fs'[l] = StandardScalerTransform(scaler, raw')]_vars

-----------------------------------------------------------------------------
\* Lab 03 notebook (03_manual_sagemaker_process_train.ipynb), run from its
\* first cell to its last in a fresh kernel.  A cell whose library call raises
\* an error that no except clause catches ends the run.

\* the errors the SageMaker SDK and boto3 raise
ErrorTypes == {"ValueError", "ClientError"}

Role(name) == [kind |-> "role", name |-> name]
\* the role get_execution_role() returns inside SageMaker
NotebookRole == Role("NotebookRole")
\* execution_role = "AmazonSageMaker-ExecutionRole-20191003T111555"
FallbackRole == Role("AmazonSageMaker-ExecutionRole-20191003T111555")

Predictor(name) == [kind |-> "predictor", endpoint_name |-> name]

\* the statements of the notebook in the order of its code cells
Cells ==
    << "pip", "setup", "save_raw", "write_preprocessing", "get_role",
       "sklearn_processor", "process", "copy_processed", "upload",
       "estimator", "fit", "copy_model", "untar", "tuner", "analytics",
       "deploy", "predict", "delete_endpoint", "write_batch_score",
       "batch_scorer", "batch_run", "report", "end" >>

CellIndex(c) == CHOOSE i \in 1..Len(Cells) : Cells[i] = c

NextCell(c) == Cells[CellIndex(c) + 1]

\* a bare except around get_execution_role()
Caught_Any(c, err) == c = "get_role"

\* try: execution_role = get_execution_role()  except ValueError: ...
\* is the only try statement of the notebook
Caught(c, err) == c = "get_role" /\ err = "ValueError"

\* an endpoint that is never removed
DeleteEndpoint_Noop(eps, name) == eps

\* sess.delete_endpoint(name)
DeleteEndpoint(eps, name) == eps \ {name}

\* a feature array: the file it holds and whether scaler.transform made it
RawArray(f) == [file |-> f, scaled |-> FALSE]
ScaledArray(f) == [file |-> f, scaled |-> TRUE]

\* no job has been submitted
NoJobs == [processing |-> Unbound, hosted |-> Unbound, tuning |-> Unbound,
           batch |-> Unbound]

\* the model.tar.gz a training job leaves in S3
ModelData(job, r) == [job |-> job, run |-> r]

\* a processor with an instance_count of 2
sklearn_processor1_TwoInstances ==
    [framework_version |-> "0.23-1", instance_type |-> "ml.m5.xlarge",
     instance_count |-> 2]

\* sklearn_processor1 = SKLearnProcessor(framework_version='0.23-1', ...,
\*     instance_type='ml.m5.xlarge', instance_count=1)
sklearn_processor1 ==
    [framework_version |-> "0.23-1", instance_type |-> "ml.m5.xlarge",
     instance_count |-> 1]

\* ProcessingInput(source=raw_s3, destination='/opt/ml/processing/input'):
\* no s3_data_distribution_type is given, the SDK's default applies
ProcessingInputDistribution == "FullyReplicated"

\* outputs=[ProcessingOutput(output_name='train', ...),
\*          ProcessingOutput(output_name='test', ...)]: what preprocessing.py
\* leaves in /opt/ml/processing/train and /opt/ml/processing/test
ProcessingOutputs ==
    << [output_name |-> "train", destination |-> "data/train",
        features |-> ScaledArray("x_train.npy")],
       [output_name |-> "test", destination |-> "data/test",
        features |-> ScaledArray("x_test.npy")] >>

\* a batch scoring job that scores the hosted training job's model on the
\* train output
BatchInputs_HostedModelOnTrain(j) ==
    [model |-> j.hosted.model_data,
     test  |-> j.processing.outputs[1].destination]

\* inputs=[ProcessingInput(source=tuner.best_estimator().model_data, ...),
\*   ProcessingInput(
\*     source=sklearn_processor1.latest_job.outputs[1].destination, ...)]
\* (Python's index 1 is the second element)
BatchInputs(j) ==
    [model |-> j.tuning.best_model_data,
     test  |-> j.processing.outputs[2].destination]

\* the features of the processing output stored at destination d
FeaturesAt(j, d) ==
    LET o == CHOOSE o \in {j.processing.outputs[i] :
                              i \in DOMAIN j.processing.outputs} :
                   o.destination = d
    IN o.features

InitLab ==
    /\ n_pc = "pip"
    /\ n_status = "running"
    /\ n_run = 1
    /\ execution_role = Unbound
    /\ tuning_predictor = Unbound
    /\ endpoints = {}
    /\ raised = {}
    /\ n_x_test = Unbound
    /\ n_jobs = NoJobs
    /\ handed = {}
    /\ IdleData /\ IdlePipeline /\ IdleScore

NAt(c) == n_status = "running" /\ n_pc = c

\* the statement completes and the run goes on to the next one
Proceed(c) ==
    /\ n_pc' = NextCell(c)
    /\ n_status' = IF NextCell(c) = "end" THEN "done" ELSE "running"

\* the statement raises err and nothing catches it
Uncaught(c, err) ==
    /\ raised' = raised \cup {[cell |-> c, err |-> err]}
    /\ n_status' = "failed"
    /\ UNCHANGED n_pc

\* a shell line (!pip, !aws, !tar) or a %%writefile cell: IPython raises
\* nothing whatever the command's exit status
ShellCell(c) ==
    /\ NAt(c)
    /\ Proceed(c)
    /\ UNCHANGED <<n_run, execution_role, tuning_predictor, endpoints, raised,
                   n_x_test, n_jobs, handed>>
    /\ UNCHANGED <<dataVars, pipeVars, scoreVars>>

\* a cell of library calls outside any try statement
LibraryCell(c) ==
    /\ NAt(c)
    /\ \/ Proceed(c) /\ UNCHANGED raised
       \/ \E err \in ErrorTypes : Uncaught(c, err)
    /\ UNCHANGED <<n_run, execution_role, tuning_predictor, endpoints,
                   n_x_test, n_jobs, handed>>
    /\ UNCHANGED <<dataVars, pipeVars, scoreVars>>

PipInstall == ShellCell("pip")

\* sess = sagemaker.session.Session(); bucket = sess.default_bucket(); makedirs
Setup == LibraryCell("setup")

\* boston_housing.load_data(); np.save x4; sess.upload_data(path='./data/raw/')
SaveAndUploadRaw ==
    /\ NAt("save_raw")
    /\ \/ /\ n_x_test' = RawArray("x_test.npy")
          /\ Proceed("save_raw")
          /\ UNCHANGED raised
       \/ /\ \E err \in ErrorTypes : Uncaught("save_raw", err)
          /\ n_x_test' \in {n_x_test, RawArray("x_test.npy")}
    /\ UNCHANGED <<n_run, execution_role, tuning_predictor, endpoints, n_jobs,
                   handed>>
    /\ UNCHANGED <<dataVars, pipeVars, scoreVars>>

WritePreprocessing == ShellCell("write_preprocessing")

\* try:
\*     execution_role = get_execution_role()
\* except ValueError:
\*     execution_role = "AmazonSageMaker-ExecutionRole-20191003T111555"
GetExecutionRole ==
    /\ NAt("get_role")
    /\ \/ /\ execution_role' = NotebookRole
          /\ Proceed("get_role")
          /\ UNCHANGED raised
       \/ \E err \in ErrorTypes :
            IF Caught("get_role", err)
            THEN /\ raised' = raised \cup {[cell |-> "get_role", err |-> err]}
                 /\ execution_role' = FallbackRole
                 /\ Proceed("get_role")
            ELSE /\ Uncaught("get_role", err)
                 /\ UNCHANGED execution_role
    /\ UNCHANGED <<n_run, tuning_predictor, endpoints, n_x_test, n_jobs, handed>>
    /\ UNCHANGED <<dataVars, pipeVars, scoreVars>>

\* sklearn_processor1 = SKLearnProcessor(..., role=execution_role, ...)
NewSKLearnProcessor == LibraryCell("sklearn_processor")

\* sklearn_processor1.run(code='preprocessing.py', ...); jobs[-1].describe()
RunProcessing ==
    /\ NAt("process")
    /\ \/ /\ \E inst \in InstanceFiles(ProcessingInputDistribution,
                                       sklearn_processor1.instance_count,
                                       FileNames) :
               n_jobs' = [n_jobs EXCEPT !.processing =
                            [instance_count |->
                                 sklearn_processor1.instance_count,
                             instances |-> inst,
                             outputs |-> ProcessingOutputs]]
          /\ Proceed("process")
          /\ UNCHANGED raised
       \/ /\ \E err \in ErrorTypes : Uncaught("process", err)
          /\ UNCHANGED n_jobs
    /\ UNCHANGED <<n_run, execution_role, tuning_predictor, endpoints, n_x_test,
                   handed>>
    /\ UNCHANGED <<dataVars, pipeVars, scoreVars>>

\* !aws s3 cp of the four processed files
CopyProcessed == ShellCell("copy_processed")

\* sess.upload_data(path='./data/train/'), sess.upload_data(path='./data/test/')
UploadTrainTest == LibraryCell("upload")

\* hosted_estimator = TensorFlow(..., role=sagemaker.get_execution_role(), ...)
NewEstimator == LibraryCell("estimator")

\* hosted_estimator.fit(inputs)
\* inputs = {'train': train_s3, 'test': test_s3}: the uploaded copies of the
\* processing job's outputs
FitEstimator ==
    /\ NAt("fit")
    /\ \/ /\ n_jobs' = [n_jobs EXCEPT !.hosted =
                          [model_data |-> ModelData("hosted", n_run)]]
          /\ handed' = handed \cup
                {[by |-> "fit", data |-> FeaturesAt(n_jobs, "data/train")]}
          /\ Proceed("fit")
          /\ UNCHANGED raised
       \/ /\ \E err \in ErrorTypes : Uncaught("fit", err)
          /\ UNCHANGED <<n_jobs, handed>>
    /\ UNCHANGED <<n_run, execution_role, tuning_predictor, endpoints, n_x_test>>
    /\ UNCHANGED <<dataVars, pipeVars, scoreVars>>

CopyModel == ShellCell("copy_model")

Untar == ShellCell("untar")

\* tuner = HyperparameterTuner(..., max_jobs=6, max_parallel_jobs=3, ...)
\* tuner.fit(inputs, job_name=tuning_job_name); tuner.wait()
Tune ==
    /\ NAt("tuner")
    /\ \/ /\ n_jobs' = [n_jobs EXCEPT !.tuning =
                          [max_jobs |-> 6, max_parallel_jobs |-> 3,
                           best_model_data |-> ModelData("tuning", n_run)]]
          /\ handed' = handed \cup
                {[by |-> "fit", data |-> FeaturesAt(n_jobs, "data/train")]}
          /\ Proceed("tuner")
          /\ UNCHANGED raised
       \/ /\ \E err \in ErrorTypes : Uncaught("tuner", err)
          /\ UNCHANGED <<n_jobs, handed>>
    /\ UNCHANGED <<n_run, execution_role, tuning_predictor, endpoints, n_x_test>>
    /\ UNCHANGED <<dataVars, pipeVars, scoreVars>>

\* sagemaker.HyperparameterTuningJobAnalytics(tuning_job_name).dataframe()
Analytics == LibraryCell("analytics")

\* tuning_predictor = tuner.deploy(initial_instance_count=1, ...)
Deploy ==
    /\ NAt("deploy")
    /\ \/ /\ tuning_predictor' = Predictor(n_run)
          /\ endpoints' = endpoints \cup {n_run}
          /\ Proceed("deploy")
          /\ UNCHANGED raised
       \/ /\ \E err \in ErrorTypes : Uncaught("deploy", err)
          /\ UNCHANGED <<tuning_predictor, endpoints>>
    /\ UNCHANGED <<n_run, execution_role, n_x_test, n_jobs, handed>>
    /\ UNCHANGED <<dataVars, pipeVars, scoreVars>>

\* results = tuning_predictor.predict(x_test[:10])['predictions']
Predict ==
    /\ NAt("predict")
    /\ \/ /\ handed' = handed \cup {[by |-> "predict", data |-> n_x_test]}
          /\ Proceed("predict")
          /\ UNCHANGED raised
       \/ /\ \E err \in ErrorTypes : Uncaught("predict", err)
          /\ UNCHANGED handed
    /\ UNCHANGED <<n_run, execution_role, tuning_predictor, endpoints, n_x_test,
                   n_jobs>>
    /\ UNCHANGED <<dataVars, pipeVars, scoreVars>>

\* sess.delete_endpoint(tuning_predictor.endpoint_name)
DeleteEndpointCell ==
    /\ NAt("delete_endpoint")
    /\ \/ /\ endpoints' =
                DeleteEndpoint(endpoints, tuning_predictor.endpoint_name)
          /\ Proceed("delete_endpoint")
          /\ UNCHANGED raised
       \/ /\ \E err \in ErrorTypes : Uncaught("delete_endpoint", err)
          /\ UNCHANGED endpoints
    /\ UNCHANGED <<n_run, execution_role, tuning_predictor, n_x_test, n_jobs,
                   handed>>
    /\ UNCHANGED <<dataVars, pipeVars, scoreVars>>

WriteBatchScore == ShellCell("write_batch_score")

\* batch_scorer = SKLearnProcessor(..., role=execution_role)
NewBatchScorer == LibraryCell("batch_scorer")

\* batch_scorer.run(inputs=[...], outputs=[...], code="./batch-score.py")
\* batch-score.py evaluates the model on the x_test.npy of its test input
RunBatchScore ==
    /\ NAt("batch_run")
    /\ \/ /\ n_jobs' = [n_jobs EXCEPT !.batch =
                          [inputs |-> BatchInputs(n_jobs)]]
          /\ handed' = handed \cup
                {[by |-> "evaluate",
                  data |-> FeaturesAt(n_jobs, BatchInputs(n_jobs).test)]}
          /\ Proceed("batch_run")
          /\ UNCHANGED raised
       \/ /\ \E err \in ErrorTypes : Uncaught("batch_run", err)
          /\ UNCHANGED <<n_jobs, handed>>
    /\ UNCHANGED <<n_run, execution_role, tuning_predictor, endpoints, n_x_test>>
    /\ UNCHANGED <<dataVars, pipeVars, scoreVars>>

\* !aws s3 cp {report_path} ./score-report.txt --quiet && cat score-report.txt
FetchScoreReport == ShellCell("report")

\* the kernel is restarted and the notebook run again from its first cell;
\* the endpoints of the account stay as the earlier run left them
RestartAndRunAll ==
    /\ n_status \in {"done", "failed"}
    /\ n_run < MaxRuns
    /\ n_run' = n_run + 1
    /\ n_pc' = "pip"
    /\ n_status' = "running"
    /\ execution_role' = Unbound
    /\ tuning_predictor' = Unbound
    /\ raised' = {}
    /\ n_x_test' = Unbound
    /\ n_jobs' = NoJobs
    /\ handed' = {}
    /\ UNCHANGED endpoints
    /\ UNCHANGED <<dataVars, pipeVars, scoreVars>>

NextLab03 ==
    \/ PipInstall \/ Setup \/ SaveAndUploadRaw \/ WritePreprocessing
    \/ GetExecutionRole \/ NewSKLearnProcessor \/ RunProcessing
    \/ CopyProcessed \/ UploadTrainTest \/ NewEstimator \/ FitEstimator
    \/ CopyModel \/ Untar \/ Tune \/ Analytics \/ Deploy \/ Predict
    \/ DeleteEndpointCell \/ WriteBatchScore \/ NewBatchScorer
    \/ RunBatchScore \/ FetchScoreReport \/ RestartAndRunAll

SpecLab03 == InitLab /\ [][NextLab03]_vars

\* C8 as the specification states it: every error a library call raises ends
\* the running cell in a failed state, none is caught and replaced by a
\* fallback value.
C8_EveryErrorEndsTheRun ==
    raised # {} => n_status = "failed"

\* C8: the one error repository code catches is the ValueError of
\* get_execution_role() in the processor cell of lab 03, which it replaces by
\* a hard-coded role name; every other error a library call raises, the
\* ValueError of the unguarded get_execution_role() of the estimator cell
\* included, ends the run in a failed state at the statement that raised it.
C8_OnlyRoleLookupIsRecovered ==
    \A r \in raised :
        IF r.cell = "get_role" /\ r.err = "ValueError"
        THEN execution_role = FallbackRole
        ELSE n_status = "failed" /\ n_pc = r.cell

C8_Witness ==
    /\ [cell |-> "get_role", err |-> "ValueError"] \in raised
    /\ [cell |-> "estimator", err |-> "ValueError"] \in raised
    /\ execution_role = FallbackRole
    /\ n_status = "failed"

EndpointOfRun == tuning_predictor.endpoint_name

RunEnded == n_status \in {"done", "failed"}

\* C10 as the specification states it: a run that created the endpoint has
\* deleted it when the run ends, also when predict failed.
C10_EndpointDeletedWhenRunEnds ==
    (RunEnded /\ tuning_predictor # Unbound) => EndpointOfRun \notin endpoints

\* C10: the endpoint tuner.deploy created is deleted exactly in the runs
\* that complete the predict cell and the delete_endpoint cell; a run in which
\* predict or delete_endpoint raises ends with the endpoint still running.
C10_EndpointDeletedIffDeleteCellCompleted ==
    tuning_predictor # Unbound =>
        (EndpointOfRun \notin endpoints
            <=> CellIndex(n_pc) > CellIndex("delete_endpoint"))

C10_Witness ==
    /\ n_status = "failed"
    /\ n_pc = "predict"
    /\ tuning_predictor # Unbound
    /\ EndpointOfRun \in endpoints

\* the output of the processing job with the given name
OutputNamed(j, name) ==
    CHOOSE o \in {j.processing.outputs[i] : i \in DOMAIN j.processing.outputs} :
        o.output_name = name

\* C12: the lab 03 batch scoring job gets as its test input the 'test' output
\* of the preprocessing job (the second of its outputs, the first being
\* 'train') and as its model input the artifact of the tuning job's best
\* training job, not that of the earlier hosted training job
C12_BatchScoresBestModelOnTestOutput ==
    n_jobs.batch # Unbound =>
      /\ n_jobs.processing.outputs[1].output_name = "train"
      /\ n_jobs.processing.outputs[2].output_name = "test"
      /\ n_jobs.batch.inputs.test = OutputNamed(n_jobs, "test").destination
      /\ n_jobs.batch.inputs.test # OutputNamed(n_jobs, "train").destination
      /\ n_jobs.batch.inputs.model = n_jobs.tuning.best_model_data
      /\ n_jobs.batch.inputs.model # n_jobs.hosted.model_data

\* a run has submitted the batch scoring job, after both training jobs
C12_Witness ==
    /\ n_status = "done"
    /\ n_jobs.batch # Unbound
    /\ n_jobs.hosted # Unbound
    /\ n_jobs.tuning # Unbound

C16_ModelsGetScaledFeatures ==
    \A h \in handed : h.data.scaled

====
